---------------------------- MODULE Spec2Model ----------------------------
(***************************************************************************)
(* Model of the symmetric-delete spelling corrector (src/spelling.py) and  *)
(* of its word metric (src/wordmetric.py).                                 *)
(*                                                                         *)
(* A word is a sequence of characters; a character is a one-letter string. *)
(* Metric values are kept in tenths (fixed point): the letter costs of the *)
(* code are 0, 0.1 and 1, so every distance the metric returns is a        *)
(* multiple of 0.1.  Stored deletion distances are whole numbers, as in    *)
(* the code, and are converted with Tenths where the code compares them    *)
(* with a metric value.                                                    *)
(***************************************************************************)
EXTENDS Integers, Sequences, FiniteSets, TLC

VARIABLES
    max_distance,           \* FarooSpellingCorrector.max_distance
    keep_all_suggestions,   \* FarooSpellingCorrector.keep_all_suggestions
    dictionary,             \* self.dictionary: word -> Term.count
    suggestions,            \* self.suggestions: key -> list of Suggestion
    calls,                  \* history: word -> number of add_entry(word) calls
    ret,                    \* what the last finished call returned
    pc,                     \* "idle", or "loop" while suggest() runs; "input"
                            \* and "output" in the pure-function specifications
    op,                     \* the last call: "add_entry", "add_corpus",
                            \* "suggest" or "correct"
    word,                   \* add_entry(), suggest(): its argument
    found,                  \* suggest(): the local set `suggestions`
    candidates,             \* suggest(): the deque of candidates
    seen,                   \* suggest(): the set `seen`
    corpus,                 \* add_corpus(): its argument
    queries,                \* history: number of queries begun
    qualified,              \* history: the terms the running query accepted
    before,                 \* history: the index when the last call began
    arg_s, arg_t,           \* inputs of the pure-function specifications
    arg_k,
    out                     \* result of the pure-function specifications

vars == <<max_distance, keep_all_suggestions, dictionary, suggestions, calls,
          ret, pc, op, word, found, candidates, seen, corpus, queries, qualified,
          before, arg_s, arg_t, arg_k, out>>

---------------------------------------------------------------------------
(* Bounds of the model. *)

MaxWordLen == 3
MaxDist == 2
MaxCalls == 2
MaxQueries == 1
MaxMetricLen == 3
MaxEditLen == 4
MaxEditDist == 3

(* One whole unit of distance, and the accent near-miss cost, in tenths. *)
Unit == 10
AccentCost == 1

None == "None"

Alphabet == {"a", "b"}
MetricAlphabet == {"a", "A", "á", "b"}

RECURSIVE StringsUpTo(_, _)
StringsUpTo(chars, n) ==
    IF n = 0 THEN {<<>>}
    ELSE LET shorter == StringsUpTo(chars, n - 1)
         IN  shorter \cup {Append(s, c) : s \in shorter, c \in chars}

Words == StringsUpTo(Alphabet, MaxWordLen) \ {<<>>}

Min(S) == CHOOSE x \in S : \A y \in S : x <= y

---------------------------------------------------------------------------
(* wordmetric.py *)

\* str.lower(), character by character
LowerChar(c) ==
    CASE c = "A" -> "a"
      [] c = "Á" -> "á"
      [] OTHER -> c

lower(s) == [i \in 1..Len(s) |-> LowerChar(s[i])]

\* Length of the first run of equal characters of a non-empty word.
RunLen(w) ==
    CHOOSE k \in 1..Len(w) :
        /\ \A i \in 1..k : w[i] = w[1]
        /\ k = Len(w) \/ w[k + 1] # w[1]

\* itertools.groupby(word): the runs of equal consecutive characters
RECURSIVE groupby(_)
groupby(w) ==
    IF w = <<>> THEN <<>>
    ELSE LET k == RunLen(w)
         IN  <<SubSeq(w, 1, k)>> \o groupby(SubSeq(w, k + 1, Len(w)))

\* ''.join(s)[:2]
FirstTwo(s) == SubSeq(s, 1, IF Len(s) < 2 THEN Len(s) ELSE 2)

RECURSIVE join(_)
join(groups) ==
    IF groups = <<>> THEN <<>> ELSE Head(groups) \o join(Tail(groups))

squash(w) ==
    LET groups == groupby(w)
    IN  join([i \in 1..Len(groups) |-> FirstTwo(groups[i])])

AccentPairs ==
    {{"á", "a"}, {"é", "e"}, {"í", "i"}, {"ó", "o"}, {"ú", "u"}}

\* A plausible slip: the accent pairs compared as ordered pairs.
letter_distance_ordered(a, b) ==
    IF a = b THEN 0
    ELSE IF <<a, b>> \in {<<"á", "a">>, <<"é", "e">>, <<"í", "i">>,
                          <<"ó", "o">>, <<"ú", "u">>} THEN AccentCost
    ELSE Unit

\* LevehnsteinDistance.letter_distance, in tenths
letter_distance(a, b) ==
    IF a = b THEN 0
    ELSE IF {a, b} \in AccentPairs THEN AccentCost
    ELSE Unit

\* The matrix after lines 73-78: first row 0..n, first column 0..m, else 0.
InitTable(m, n) ==
    [i \in 0..m |-> [j \in 0..n |->
        IF i = 0 THEN j * Unit ELSE IF j = 0 THEN i * Unit ELSE 0]]

\* The cost of swapping the last two letters (python's s[i-2] is s[i-1] here).
swap_cost(d, s, t, i, j) ==
    d[i - 2][j - 2] + letter_distance(s[i - 1], t[j])
                    + letter_distance(s[i], t[j - 1]) + Unit

\* The value the loop body assigns to d[i][j].
Cell(d, s, t, i, j) ==
    LET replace_cost == d[i - 1][j - 1] + letter_distance(s[i], t[j])
        delete_cost == d[i - 1][j] + Unit
        insert_cost == d[i][j - 1] + Unit
    IN  IF i >= 2 /\ j >= 2
        THEN Min({replace_cost, delete_cost, insert_cost,
                  swap_cost(d, s, t, i, j)})
        ELSE Min({replace_cost, delete_cost, insert_cost})

\* for j in range(1, n + 1): for i in range(1, m + 1): d[i][j] = ...
RECURSIVE FillTable(_, _, _, _, _)
FillTable(d, s, t, i, j) ==
    IF j > Len(t) THEN d
    ELSE IF i > Len(s) THEN FillTable(d, s, t, 1, j + 1)
    ELSE FillTable([d EXCEPT ![i][j] = Cell(d, s, t, i, j)], s, t, i + 1, j)

\* LevehnsteinDistance.edit_distance, in tenths
edit_distance(s0, t0) ==
    LET s == squash(lower(s0))
        t == squash(lower(t0))
        m == Len(s)
        n == Len(t)
    IN  FillTable(InitTable(m, n), s, t, 1, 1)[m][n]

(* The metric specification: the inputs are drawn from bounded sets and   *)
(* the action computes the distance in both directions.                   *)

MetricStrings == StringsUpTo(MetricAlphabet, MaxMetricLen)

IdleRest ==
    /\ max_distance = 1
    /\ keep_all_suggestions = FALSE
    /\ dictionary = <<>>
    /\ suggestions = <<>>
    /\ calls = <<>>
    /\ op = None
    /\ word = <<>>
    /\ found = {}
    /\ candidates = <<>>
    /\ seen = {}
    /\ corpus = <<>>
    /\ queries = 0
    /\ qualified = {}
    /\ before = <<>>

InitMetric ==
    /\ arg_s \in MetricStrings
    /\ arg_t \in MetricStrings
    /\ arg_k = 0
    /\ out = <<0, 0>>
    /\ pc = "input"
    /\ ret = None
    /\ IdleRest

ComputeDistance ==
    /\ pc = "input"
    /\ pc' = "output"
    /\ out' = <<edit_distance(arg_s, arg_t), edit_distance(arg_t, arg_s)>>
    /\ UNCHANGED <<max_distance, keep_all_suggestions, dictionary,
                   suggestions, calls, ret, op, word, found, candidates,
                   seen, corpus, queries, qualified, before,
                   arg_s, arg_t, arg_k>>

NextMetric == ComputeDistance

SpecMetric == InitMetric /\ [][NextMetric]_vars


---------------------------------------------------------------------------
(* spelling.py: Suggestion and the deletion generator *)

\* Suggestion.__init__
Suggestion(term, count, distance) ==
    [term |-> term, count |-> count, distance |-> distance]

\* `x in S` for a set of Suggestion: __eq__ and __hash__ look at term alone
Contains(S, x) == \E y \in S : y.term = x.term

\* set.add: an element equal to one already in the set is not added
SetAdd(S, x) == IF Contains(S, x) THEN S ELSE S \cup {x}

\* set.update: the elements of T that S does not hold yet (T holds no two
\* equal elements, being a set of Suggestion itself)
SetUpdate(S, T) == S \cup {x \in T : ~Contains(S, x)}

\* entry[:i] + entry[i + 1:], for the 1-based position i
RemoveAt(entry, i) == SubSeq(entry, 1, i - 1) \o SubSeq(entry, i + 1, Len(entry))

RECURSIVE edits(_, _, _)
RECURSIVE editsLoop(_, _, _, _, _)

\* A plausible slip: the guard n > 0, which lets the last letter go too.
edits_guard_off(entry, maxd, distance) ==
    IF Len(entry) > 0 THEN editsLoop(entry, maxd, distance, 1, {}) ELSE {}

\* FarooSpellingCorrector.edits
edits(entry, maxd, distance) ==
    IF Len(entry) > 1 THEN editsLoop(entry, maxd, distance, 1, {}) ELSE {}

\* for i in range(n): ..., from position i on, with `deletes` so far
editsLoop(entry, maxd, distance, i, deletes) ==
    IF i > Len(entry) THEN deletes
    ELSE LET modified_entry == RemoveAt(entry, i)
             delete == Suggestion(modified_entry, 0, distance)
         IN  IF Contains(deletes, delete)
             THEN editsLoop(entry, maxd, distance, i + 1, deletes)
             ELSE LET added == deletes \cup {delete}
                      updated ==
                          IF distance < maxd
                          THEN SetUpdate(added,
                                   edits(modified_entry, maxd, distance + 1))
                          ELSE added
                  IN  editsLoop(entry, maxd, distance, i + 1, updated)

(* The deletion-generator specification. *)

EditAlphabet == {"a", "b", "c"}
EditWords == StringsUpTo(EditAlphabet, MaxEditLen) \ {<<>>}

InitEdits ==
    /\ arg_s \in EditWords
    /\ arg_t = <<>>
    /\ arg_k \in 1..MaxEditDist
    /\ out = {}
    /\ pc = "input"
    /\ ret = None
    /\ IdleRest

ComputeEdits ==
    /\ pc = "input"
    /\ pc' = "output"
    /\ out' = edits(arg_s, arg_k, 1)
    /\ UNCHANGED <<max_distance, keep_all_suggestions, dictionary,
                   suggestions, calls, ret, op, word, found, candidates,
                   seen, corpus, queries, qualified, before,
                   arg_s, arg_t, arg_k>>

NextEdits == ComputeEdits

SpecEdits == InitEdits /\ [][NextEdits]_vars

\* The letters of w at the positions in keep, in order.
LettersAt(w, keep) ==
    LET F[i \in 0..Len(w)] ==
            IF i = 0 THEN <<>>
            ELSE IF i \in keep THEN Append(F[i - 1], w[i]) ELSE F[i - 1]
    IN  F[Len(w)]

\* Every string got from w by deleting exactly i letters, 1 <= i <= k, each
\* with the smallest i that gives it.
AllDeletions(w, k) ==
    LET pairs == {<<LettersAt(w, keep), Len(w) - Cardinality(keep)>> :
                     keep \in {K \in SUBSET (1..Len(w)) :
                                  Len(w) - Cardinality(K) \in 1..k}}
    IN  {Suggestion(p[1], 0, p[2]) :
            p \in {q \in pairs : \A r \in pairs : r[1] = q[1] => q[2] <= r[2]}}

NoDuplicates(S) == \A x, y \in S : x.term = y.term => x = y

---------------------------------------------------------------------------
(* spelling.py: the correction index *)

Tenths(n) == n * Unit

\* The value of self.suggestions[key], a defaultdict(list)
Lookup(sugg, key) == IF key \in DOMAIN sugg THEN sugg[key] ELSE <<>>

\* The mapping once self.suggestions[key] was read: reading a missing key
\* of a defaultdict creates it, with an empty list
Touch(sugg, key) ==
    IF key \in DOMAIN sugg THEN sugg ELSE (key :> <<>>) @@ sugg

\* A plausible slip: a tie clears the list too (>= for >).
keep_lowest_distance_tie_clears(suggestion_list, suggestion) ==
    LET cleared ==
            IF /\ suggestion_list # <<>>
               /\ ~keep_all_suggestions
               /\ suggestion_list[1].distance >= suggestion.distance
            THEN <<>>
            ELSE suggestion_list
    IN  IF \/ keep_all_suggestions
           \/ cleared = <<>>
           \/ cleared[1].distance >= suggestion.distance
        THEN Append(cleared, suggestion)
        ELSE cleared

\* FarooSpellingCorrector.keep_lowest_distance: the list afterwards
keep_lowest_distance(suggestion_list, suggestion) ==
    LET cleared ==
            IF /\ suggestion_list # <<>>
               /\ ~keep_all_suggestions
               /\ suggestion_list[1].distance > suggestion.distance
            THEN <<>>
            ELSE suggestion_list
    IN  IF \/ keep_all_suggestions
           \/ cleared = <<>>
           \/ cleared[1].distance >= suggestion.distance
        THEN Append(cleared, suggestion)
        ELSE cleared

\* The list under `key` once add_entry(entry) registered `deletes`.  The
\* deletes have pairwise different terms, so the order in which the loop
\* of lines 132-136 visits them does not matter.
ListAfterEntry(sugg, entry, deletes, key) ==
    IF key = entry THEN <<Suggestion(entry, 0, 0)>>
    ELSE IF \E d \in deletes : d.term = key
    THEN LET delete == CHOOSE d \in deletes : d.term = key
         IN  keep_lowest_distance(Lookup(sugg, key),
                                  Suggestion(entry, 0, delete.distance))
    ELSE sugg[key]

\* A plausible slip: the count incremented for a new word only.
add_entry_counts_new_only(dict, sugg, entry) ==
    LET new == entry \notin DOMAIN dict
        deletes == edits(entry, max_distance, 1)
        keys == DOMAIN sugg \cup {entry} \cup {d.term : d \in deletes}
    IN  [dictionary |-> IF new THEN (entry :> 1) @@ dict ELSE dict,
         suggestions |->
            IF new
            THEN [key \in keys |-> ListAfterEntry(sugg, entry, deletes, key)]
            ELSE sugg,
         new |-> new]

\* FarooSpellingCorrector.add_entry: the index afterwards and the result
add_entry(dict, sugg, entry) ==
    LET new == entry \notin DOMAIN dict
        count == IF new THEN 0 ELSE dict[entry]
        deletes == edits(entry, max_distance, 1)
        keys == DOMAIN sugg \cup {entry} \cup {d.term : d \in deletes}
    IN  [dictionary |-> (entry :> count + 1) @@ dict,
         suggestions |->
            IF new
            THEN [key \in keys |-> ListAfterEntry(sugg, entry, deletes, key)]
            ELSE sugg,
         new |-> new]

\* FarooSpellingCorrector.add_corpus, from the i-th word on
RECURSIVE add_corpus(_, _, _, _, _)
add_corpus(dict, sugg, words, i, new_word_count) ==
    IF i > Len(words)
    THEN [dictionary |-> dict, suggestions |-> sugg, count |-> new_word_count]
    ELSE LET r == add_entry(dict, sugg, words[i])
         IN  add_corpus(r.dictionary, r.suggestions, words, i + 1,
                        IF r.new THEN new_word_count + 1 ELSE new_word_count)

Count(f, w) == IF w \in DOMAIN f THEN f[w] ELSE 0

RECURSIVE Total(_)
Total(f) ==
    IF DOMAIN f = {} THEN 0
    ELSE LET w == CHOOSE x \in DOMAIN f : TRUE
         IN  f[w] + Total([x \in DOMAIN f \ {w} |-> f[x]])

Occurrences(words, w) == Cardinality({i \in 1..Len(words) : words[i] = w})

Corpora(n) == UNION {[1..k -> Words] : k \in 0..n}

Index == [dictionary |-> dictionary, suggestions |-> suggestions]

Init ==
    /\ max_distance \in 1..MaxDist
    /\ keep_all_suggestions \in BOOLEAN
    /\ dictionary = <<>>
    /\ suggestions = <<>>
    /\ calls = <<>>
    /\ ret = None
    /\ pc = "idle"
    /\ op = None
    /\ word = <<>>
    /\ found = {}
    /\ candidates = <<>>
    /\ seen = {}
    /\ corpus = <<>>
    /\ queries = 0
    /\ qualified = {}
    /\ before = <<>>
    /\ arg_s = <<>>
    /\ arg_t = <<>>
    /\ arg_k = 0
    /\ out = {}

AddEntry(entry) ==
    /\ pc = "idle"
    /\ Total(calls) < MaxCalls
    /\ LET r == add_entry(dictionary, suggestions, entry)
       IN  /\ dictionary' = r.dictionary
           /\ suggestions' = r.suggestions
           /\ ret' = r.new
    /\ calls' = (entry :> Count(calls, entry) + 1) @@ calls
    /\ op' = "add_entry"
    /\ word' = entry
    /\ corpus' = <<>>
    /\ before' = Index
    /\ UNCHANGED <<max_distance, keep_all_suggestions, pc, found, candidates,
                   seen, queries, qualified, arg_s, arg_t, arg_k, out>>

AddCorpus(words) ==
    /\ pc = "idle"
    /\ Total(calls) + Len(words) <= MaxCalls
    /\ LET r == add_corpus(dictionary, suggestions, words, 1, 0)
       IN  /\ dictionary' = r.dictionary
           /\ suggestions' = r.suggestions
           /\ ret' = r.count
    /\ calls' = [w \in DOMAIN calls \cup {words[i] : i \in 1..Len(words)} |->
                    Count(calls, w) + Occurrences(words, w)]
    /\ op' = "add_corpus"
    /\ word' = <<>>
    /\ corpus' = words
    /\ before' = Index
    /\ UNCHANGED <<max_distance, keep_all_suggestions, pc, found, candidates,
                   seen, queries, qualified, arg_s, arg_t, arg_k, out>>

NextIndex ==
    \/ \E entry \in Words : AddEntry(entry)
    \/ \E words \in Corpora(MaxCalls - Total(calls)) : AddCorpus(words)

SpecIndex == Init /\ [][NextIndex]_vars

---------------------------------------------------------------------------
(* spelling.py: suggest and correct *)

\* The orders in which a set may be iterated
Orders(S) ==
    {s \in [1..Cardinality(S) -> S] : \A i, j \in DOMAIN s : s[i] = s[j] => i = j}

\* key=lambda s: (s.distance, s.count)
KeyLeq(a, b) ==
    \/ a.distance < b.distance
    \/ a.distance = b.distance /\ a.count <= b.count

\* sorted(suggestions, key=...): a stable sort of the set in iteration order
sorted(S) ==
    {s \in Orders(S) : \A i, j \in DOMAIN s : i < j => KeyLeq(s[i], s[j])}

\* A plausible slip: the candidate read as candidates[0] and never removed.
popleft_peeks(deque) == deque

\* candidates.popleft(): the deque afterwards
popleft(deque) == Tail(deque)

\* The metric set at initialization (LevehnsteinDistance), tabulated once
\* over the words of the model (@@ makes the table an explicit function, so
\* that no lookup computes a distance again)
Metric == [p \in Words \X Words |-> edit_distance(p[1], p[2])] @@ <<>>

\* FarooSpellingCorrector.distance
distance(original, other) == Metric[<<original, other>>]

\* The distance the loop body gives a suggestion found under a candidate,
\* in tenths: self.distance(candidate.term, word) unless the suggestion is
\* the candidate term itself
distance_of(candidate_suggestion, candidate, query) ==
    IF candidate_suggestion.term # candidate.term
    THEN distance(candidate.term, query)
    ELSE Tenths(candidate_suggestion.distance)

\* The loop of lines 261-278 from the i-th suggestion on: every set it can
\* leave in `suggestions`, next(iter(suggestions)) being any element.
RECURSIVE scan(_, _, _, _, _)
scan(candidate_suggestions, i, candidate, query, acc) ==
    IF i > Len(candidate_suggestions) THEN {acc}
    ELSE LET candidate_suggestion == candidate_suggestions[i]
             dist == distance_of(candidate_suggestion, candidate, query)
             skip == scan(candidate_suggestions, i + 1, candidate, query, acc)
             add == scan(candidate_suggestions, i + 1, candidate, query,
                         SetAdd(acc, candidate_suggestion))
             restart == scan(candidate_suggestions, i + 1, candidate, query,
                             {candidate_suggestion})
         IN  IF dist <= Tenths(max_distance)
             THEN IF acc # {} /\ ~keep_all_suggestions
                  THEN UNION {IF Tenths(some_suggestion.distance) < dist
                              THEN skip
                              ELSE IF Tenths(some_suggestion.distance) > dist
                              THEN restart
                              ELSE add : some_suggestion \in acc}
                  ELSE add
             ELSE skip

\* The terms that pass `distance <= self.max_distance` under a candidate
Qualifying(candidate_suggestions, candidate, query) ==
    {candidate_suggestions[i].term : i \in
        {k \in 1..Len(candidate_suggestions) :
            distance_of(candidate_suggestions[k], candidate, query)
                <= Tenths(max_distance)}}

\* The edits of a candidate that the loop of lines 282-285 enqueues
Unseen(candidate) ==
    IF candidate.distance < max_distance
    THEN {e \in edits(candidate.term, 1, 1) : ~Contains(seen, e)}
    ELSE {}

\* suggest(word) begins: lines 253-255
SuggestBegin(query) ==
    /\ pc = "idle"
    /\ queries < MaxQueries
    /\ pc' = "loop"
    /\ op' = "suggest"
    /\ word' = query
    /\ found' = {}
    /\ candidates' = <<Suggestion(query, 1, 0)>>
    /\ seen' = {Suggestion(query, 1, 0)}
    /\ qualified' = {}
    /\ queries' = queries + 1
    /\ before' = Index
    /\ ret' = <<>>
    /\ corpus' = <<>>
    /\ UNCHANGED <<max_distance, keep_all_suggestions, dictionary,
                   suggestions, calls, arg_s, arg_t, arg_k, out>>

\* One iteration of the while loop: lines 257-285
SuggestIterate ==
    /\ pc = "loop"
    /\ candidates # <<>>
    /\ LET candidate == Head(candidates)
           candidate_suggestions == Lookup(suggestions, candidate.term)
           unseen == Unseen(candidate)
       IN  /\ suggestions' = Touch(suggestions, candidate.term)
           /\ found' \in scan(candidate_suggestions, 1, candidate, word, found)
           /\ qualified' = qualified \cup
                  Qualifying(candidate_suggestions, candidate, word)
           /\ \E order \in Orders(unseen) :
                  candidates' = popleft(candidates) \o order
           /\ seen' = seen \cup unseen
    /\ UNCHANGED <<max_distance, keep_all_suggestions, dictionary, calls, ret,
                   pc, op, word, corpus, queries, before,
                   arg_s, arg_t, arg_k, out>>

\* suggest(word) returns to its caller: lines 287-288
SuggestReturn ==
    /\ pc = "loop"
    /\ candidates = <<>>
    /\ ret' \in sorted(found)
    /\ pc' = "idle"
    /\ found' = {}
    /\ seen' = {}
    /\ UNCHANGED <<max_distance, keep_all_suggestions, dictionary,
                   suggestions, calls, op, word, candidates, corpus, queries,
                   qualified, before, arg_s, arg_t, arg_k, out>>

\* correct(word): suggest(word) returns to correct, which returns the first
\* suggestion, if any (line 301).  The loop does not depend on which of the
\* two was called, so the caller is named when the loop is over.  An absent
\* value is the empty sequence, a value the sequence holding it.
CorrectReturn ==
    /\ pc = "loop"
    /\ candidates = <<>>
    /\ \E result \in sorted(found) :
           ret' = IF result # <<>> THEN <<result[1]>> ELSE <<>>
    /\ op' = "correct"
    /\ pc' = "idle"
    /\ found' = {}
    /\ seen' = {}
    /\ UNCHANGED <<max_distance, keep_all_suggestions, dictionary,
                   suggestions, calls, word, candidates, corpus, queries,
                   qualified, before, arg_s, arg_t, arg_k, out>>

Next ==
    \/ \E entry \in Words : AddEntry(entry)
    \/ \E query \in Words : SuggestBegin(query)
    \/ SuggestIterate
    \/ SuggestReturn
    \/ CorrectReturn

\* A call that runs keeps running until it returns.
Spec ==
    /\ Init
    /\ [][Next]_vars
    /\ WF_vars(SuggestIterate)
    /\ WF_vars(SuggestReturn \/ CorrectReturn)

---------------------------------------------------------------------------
(* Claims about the pure functions *)

\* C3 as stated: for every word w longer than one letter and every k >= 1,
\* edits(w, k) is exactly the set of strings got from w by deleting i
\* letters, 1 <= i <= k, each once and with the smallest such i.
C3_AsStated ==
    (pc = "output" /\ Len(arg_s) > 1) =>
        /\ out = AllDeletions(arg_s, arg_k)
        /\ NoDuplicates(out)

\* C3, amended: edits(w, k) is exactly the set of NON-EMPTY strings got from
\* w by deleting i letters, 1 <= i <= k, each once and with the smallest
\* such i; the empty string is never generated.
C3_NonEmptyDeletions ==
    (pc = "output" /\ Len(arg_s) > 1) =>
        /\ out = {x \in AllDeletions(arg_s, arg_k) : x.term # <<>>}
        /\ NoDuplicates(out)

\* A word with a repeated letter, cut down to single letters by the recursion.
C3_Witness ==
    /\ pc = "output"
    /\ arg_s = <<"a", "a", "b">>
    /\ arg_k = 2
    /\ out = {Suggestion(<<"a", "b">>, 0, 1), Suggestion(<<"a", "a">>, 0, 1),
              Suggestion(<<"a">>, 0, 2), Suggestion(<<"b">>, 0, 2)}

\* C8: the base metric is symmetric, edit_distance(a, b) = edit_distance(b, a),
\* also where the accent cost and the transposition apply.
C8_MetricSymmetric ==
    pc = "output" => out[1] = out[2]

\* An upper-case letter swapped with its neighbour and accented: one
\* transposition plus 0.1.
C8_Witness ==
    /\ pc = "output"
    /\ arg_s = <<"A", "b">>
    /\ arg_t = <<"b", "á">>
    /\ out[1] = Unit + AccentCost

---------------------------------------------------------------------------
(* Claims about the correction index *)

Terms(list) == {list[i].term : i \in 1..Len(list)}

\* The strings each word gives by deleting between 1 and k letters,
\* tabulated once (@@ makes the table an explicit function)
Variants ==
    [w \in Words |-> [k \in 1..MaxDist |->
        {x.term : x \in AllDeletions(w, k)}]] @@ <<>>

\* w is v itself, or gives v by deleting between 1 and max_distance letters
Produces(w, v) == w = v \/ v \in Variants[w][max_distance]

Producers(v) == {w \in DOMAIN dictionary : Produces(w, v)}

DeletionDistance(w, v) == Len(w) - Len(v)

AllKeys == Words \cup DOMAIN suggestions

\* C4 as stated: with keep_all_suggestions, the list under a string v holds
\* every inserted word that equals v or gives v by deleting between 1 and
\* max_distance letters; no later insert drops a producing word.
C4_AsStated ==
    keep_all_suggestions =>
        \A v \in AllKeys : Producers(v) \subseteq Terms(Lookup(suggestions, v))

\* C5: without keep_all_suggestions, every suggestion in the list under a
\* variant v carries the same stored distance, the smallest deletion
\* distance of any inserted word that produces v (0 when v is a dictionary
\* word), and every inserted word producing v at that distance is listed.
C5_MinimalDistanceLists ==
    ~keep_all_suggestions =>
        \A v \in AllKeys :
            LET list == Lookup(suggestions, v)
                producers == Producers(v)
                least == Min({DeletionDistance(w, v) : w \in producers})
            IN  IF producers = {} THEN list = <<>>
                ELSE /\ \A i \in 1..Len(list) :
                            /\ list[i].distance = least
                            /\ list[i].term \in producers
                            /\ DeletionDistance(list[i].term, v) = least
                     /\ \A w \in producers :
                            DeletionDistance(w, v) = least
                                => w \in Terms(list)
                     /\ least = 0 <=> v \in DOMAIN dictionary

\* A closer word replaced the list under "a", and a tie was appended
\* under "b".
C5_Witness ==
    /\ ~keep_all_suggestions
    /\ max_distance = 2
    /\ op = "add_entry"
    /\ DOMAIN dictionary = {<<"a", "b", "b">>, <<"a", "b">>}
    /\ before.suggestions[<<"a">>] = <<Suggestion(<<"a", "b", "b">>, 0, 2)>>
    /\ suggestions[<<"a">>] = <<Suggestion(<<"a", "b">>, 0, 1)>>

\* C6: the frequency of each dictionary word is the number of add_entry
\* calls made for it, add_entry returns true exactly on the first call for a
\* word, and add_corpus returns the number of distinct new words.
C6_FrequencyCountsCalls ==
    /\ DOMAIN dictionary = DOMAIN calls
    /\ \A w \in DOMAIN dictionary : dictionary[w] = calls[w] /\ calls[w] > 0
    /\ op = "add_entry" => (ret <=> calls[word] = 1)
    /\ op = "add_corpus" =>
           ret = Cardinality({w \in DOMAIN calls :
                                 /\ Occurrences(corpus, w) > 0
                                 /\ calls[w] = Occurrences(corpus, w)})

\* The second insert of a word: it returns false and the frequency is 2.
C6_Witness ==
    /\ op = "add_entry"
    /\ word = <<"a", "b">>
    /\ ret = FALSE
    /\ dictionary[word] = 2

---------------------------------------------------------------------------
(* Claims about suggest and correct *)

Returned == pc = "idle" /\ op \in {"suggest", "correct"}

\* The distance between the query and a word, under the configured metric
FromQuery(w) == distance(word, w)

\* C1 as stated: every word suggest(q) or correct(q) returns is within
\* max_distance of q under the metric; when no dictionary word is, suggest
\* returns the empty list and correct no value.
C1_AsStated ==
    Returned =>
        /\ \A i \in 1..Len(ret) : FromQuery(ret[i].term) <= Tenths(max_distance)
        /\ (\A w \in DOMAIN dictionary : FromQuery(w) > Tenths(max_distance))
               => ret = <<>>

\* C2 as stated: without keep_all_suggestions, all the suggestions that
\* suggest(q) returns are at one and the same distance from q, the smallest
\* distance of any suggestion that qualified during the search.
C2_AsStated ==
    (Returned /\ op = "suggest" /\ ~keep_all_suggestions) =>
        /\ \A i, j \in 1..Len(ret) :
               FromQuery(ret[i].term) = FromQuery(ret[j].term)
        /\ \A i \in 1..Len(ret) : \A w \in qualified :
               FromQuery(ret[i].term) <= FromQuery(w)

\* C7 as stated: suggest(q) and correct(q) leave the index as it was: the
\* dictionary, the keys of the suggestion mapping and every list.
C7_AsStated ==
    Returned => Index = before

\* C9 as stated: every queued term is tagged with the number of letters
\* deleted from q to reach it, and no term more than max_distance deletions
\* away from q is queued.
C9_AsStated ==
    pc = "loop" =>
        \A i \in 1..Len(candidates) :
            /\ candidates[i].distance = Len(word) - Len(candidates[i].term)
            /\ Len(word) - Len(candidates[i].term) <= max_distance

\* The terms an iteration enqueued are new and shorter than the candidate
\* it expanded.
EnqueuedNewAndShorter ==
    \A i \in Len(candidates)..Len(candidates') :
        /\ Len(candidates'[i].term) < Len(Head(candidates).term)
        /\ ~Contains(seen, candidates'[i])

\* C10: suggest(q) terminates for every query and every index: the queue
\* empties and the call returns, each term being enqueued at most once and
\* every enqueued term being shorter than the candidate it came from.
C10_SuggestTerminates ==
    /\ (pc = "loop") ~> (pc = "idle")
    /\ [][(pc = "loop" /\ pc' = "loop") => EnqueuedNewAndShorter]_vars

\* A query of three letters was expanded down to single letters and
\* returned.
C10_Witness ==
    /\ Returned
    /\ max_distance = 2
    /\ word = <<"a", "b", "a">>
    /\ {<<"a">>, <<"b">>, <<"a", "a">>} \subseteq DOMAIN suggestions
    /\ dictionary = <<>>

=============================================================================
